---- MODULE Spec2Model ----
(***************************************************************************)
(* Account security and authentication of BackAroma: loginUser and its    *)
(* attempt counter, the admin lock operations, the request gate           *)
(* (verifyToken, requireRole, checkAccountLock) and token issuance.       *)
(*                                                                         *)
(* Every pool.query is one atomic step of the store.  An action is one    *)
(* query together with the synchronous JavaScript that runs after it up   *)
(* to the next await.  Time is counted in minutes.                        *)
(***************************************************************************)
EXTENDS Integers, Sequences, FiniteSets, TLC

\* ---------------------------------------------------------------- bounds
MaxTime == 30
TickMinutes == 15
MaxChecks == 6
MaxTokenTime == 60
TokenTick == 30

\* ------------------------------------------------------- program constants
maxAttempts == 5
LockMinutes == 15
MinReasonLen == 10

\* ------------------------------------------------------------- value sets
NULL == -1
NoReason == <<>>
NoRow == [absent |-> TRUE]
NoUser == [absent |-> TRUE]
NoToken == [absent |-> TRUE]

Users == {1, 2}
Accounts == {1}
LoginProcs == {1, 2}
Passwords == {"secreto1", "wrong123"}
Durations == {5, 15}

AutoReason == <<"D","e","m","a","s","i","a","d","o","s"," ","i","n","t","e","n","t","o","s">>
ReasonFraude == <<"F","r","a","u","d","e"," ","c","o","n","f","i","r","m","a","d","o">>
ReasonShort == <<"s","h","o","r","t">>
ReasonPadded == <<" "," ","s","p","a","m"," "," "," "," "," "," ">>
ReasonInputs == {ReasonFraude, ReasonShort, ReasonPadded}

\* ------------------------------------------------------------- operators
RECURSIVE TrimLeft(_)
TrimLeft(s) == IF s # <<>> /\ Head(s) = " " THEN TrimLeft(Tail(s)) ELSE s

RECURSIVE TrimRight(_)
TrimRight(s) ==
  IF s # <<>> /\ s[Len(s)] = " " THEN TrimRight(SubSeq(s, 1, Len(s) - 1)) ELSE s

trim(s) == TrimRight(TrimLeft(s))

\* Columns an INSERT does not name take the column defaults.  sec[u]
\* stands for the rows of user_security with user_id = u: NoRow when there
\* is none, else their columns and, in copies, how many there are.
DefaultRow ==
  [login_attempts |-> 0, is_locked |-> FALSE, locked_until |-> NULL,
   is_permanently_locked |-> FALSE, lock_reason |-> NoReason,
   last_failed_login |-> NULL, last_login |-> NULL, copies |-> 1]

Existing(row) == IF row = NoRow THEN DefaultRow ELSE row

VARIABLES
  now,      \* wall clock, minutes
  users,    \* table users: id -> [role, password] or NoUser
  sec,      \* table user_security: user_id -> row or NoRow
  cookie,   \* access_token cookie held by the client of each user
  login,    \* in-flight POST /login requests
  gate,     \* in-flight requests on a guarded route
  checks,   \* failed password comparisons since login_attempts was last 0
  orders    \* table compras: id -> status

vars == <<now, users, sec, cookie, login, gate, checks, orders>>

Orders == {1}

GateProcs == {1, 2}

IdleLogin ==
  [pc |-> "idle", uid |-> 0, match |-> FALSE, role |-> "", attempts |-> 0,
   lockedUntil |-> NULL, code |-> "none", lock_reason |-> NoReason]

IdleGate ==
  [pc |-> "idle", route |-> "", uid |-> 0, role |-> "", tokenRole |-> "",
   status |-> 0, code |-> "none",
   target |-> 0, adminCount |-> 0, deletingRole |-> ""]

\* registered accounts with a local password; no security row yet
InitWith(roleOf) ==
  /\ now = 0
  /\ users = [u \in Users |-> [role |-> roleOf[u], password |-> "secreto1"]]
  /\ sec = [u \in Users |-> NoRow]
  /\ cookie = [u \in Users |-> NoToken]
  /\ login = [p \in LoginProcs |-> IdleLogin]
  /\ gate = [g \in GateProcs |-> IdleGate]
  /\ checks = [u \in Users |-> 0]
  /\ orders = [o \in Orders |-> "pendiente"]

Init == InitWith([u \in Users |-> IF u = 2 THEN "admin" ELSE "user"])

\* ------------------------------------------------------------ the clock
Tick ==
  /\ now + TickMinutes <= MaxTime
  /\ now' = now + TickMinutes
  /\ UNCHANGED <<users, sec, cookie, login, gate, checks, orders>>

\* the same clock in steps that reach the lifetime of a token
TickToken ==
  /\ now + TokenTick <= MaxTokenTime
  /\ now' = now + TokenTick
  /\ UNCHANGED <<users, sec, cookie, login, gate, checks, orders>>

\* ------------------------------------------------- jwt.js: generateToken
TokenLifetime == 60

generateToken(u, role, t) == [id |-> u, role |-> role, iat |-> t]

\* ------------------------------------------------- loginUser.js: loginUser
\* rows written by the four upserts of loginUser
InitialRow == [DefaultRow EXCEPT !.login_attempts = 0, !.is_locked = FALSE,
                                 !.last_login = NULL]

ExpiredClearRow(row) ==
  [Existing(row) EXCEPT !.login_attempts = 0, !.is_locked = FALSE,
                        !.locked_until = NULL, !.lock_reason = NoReason,
                        !.last_failed_login = NULL, !.last_login = NULL]

\* mutant: the threshold compared with > instead of >=
shouldLockLate(attempts) == attempts > maxAttempts

shouldLock(attempts) == attempts >= maxAttempts

\* mutant: the deadline of the lock is not stored
FailedRowNoDeadline(row, attempts, lockedUntil, t) ==
  [Existing(row) EXCEPT !.login_attempts = attempts,
                        !.is_locked = attempts >= maxAttempts,
                        !.locked_until = NULL,
                        !.last_failed_login = t,
                        !.lock_reason =
                          IF attempts >= maxAttempts THEN AutoReason ELSE NoReason]

\* mutant: the counter is incremented in the database instead of being
\* overwritten with the value the request computed
FailedRowIncrements(row, attempts, lockedUntil, t) ==
  [Existing(row) EXCEPT !.login_attempts = @ + 1,
                        !.is_locked = shouldLock(attempts),
                        !.locked_until = lockedUntil,
                        !.last_failed_login = t,
                        !.lock_reason =
                          IF shouldLock(attempts) THEN AutoReason ELSE NoReason]

FailedRow(row, attempts, lockedUntil, t) ==
  [Existing(row) EXCEPT !.login_attempts = attempts,
                        !.is_locked = shouldLock(attempts),
                        !.locked_until = lockedUntil,
                        !.last_failed_login = t,
                        !.lock_reason =
                          IF shouldLock(attempts) THEN AutoReason ELSE NoReason]

\* mutant: the counter is left as it was
SuccessRowKeepsFailures(row, t) ==
  [Existing(row) EXCEPT !.is_locked = FALSE,
                        !.locked_until = NULL, !.last_failed_login = NULL,
                        !.lock_reason = NoReason, !.last_login = t]

SuccessRow(row, t) ==
  [Existing(row) EXCEPT !.login_attempts = 0, !.is_locked = FALSE,
                        !.locked_until = NULL, !.last_failed_login = NULL,
                        !.lock_reason = NoReason, !.last_login = t]

\* lines 43, 70 and 94-97, on the row read at line 26
\* mutant: the temporary lock is looked at before the permanent one
LoginPermanentUnlessLocked(row) ==
  row # NoRow /\ row.is_permanently_locked /\ ~row.is_locked

LoginPermanent(row) == row # NoRow /\ row.is_permanently_locked

LoginExpired(row, t) == row.locked_until # NULL /\ row.locked_until < t

\* mutant: the lock test is skipped
LoginLockedNever(row, t) == FALSE

LoginLocked(row, t) ==
  row.is_locked \/ (row.locked_until # NULL /\ row.locked_until > t)

\* the settled promise: only the outcome stays in the request record
Settle(p, c, reason) ==
  [IdleLogin EXCEPT !.uid = login[p].uid, !.match = login[p].match,
                    !.code = c, !.lock_reason = reason]

\* lines 9-114: the joined SELECT and the checks made on its result
loginSelect(p, u, pw) ==
  /\ login[p].pc = "idle"
  /\ LET row == sec[u]
         match == users[u] # NoUser /\ pw = users[u].password
         out == [IdleLogin EXCEPT !.uid = u, !.match = match]
         me == [IdleLogin EXCEPT !.uid = u, !.match = match,
                  !.role = IF users[u] = NoUser THEN "" ELSE users[u].role]
     IN  login' = [login EXCEPT ![p] =
           IF Len(pw) < 4 \/ users[u] = NoUser
             THEN [out EXCEPT !.code = "Credenciales invalidas"]
           ELSE IF LoginPermanent(row)
             THEN [out EXCEPT !.code = "ACCOUNT_PERMANENTLY_LOCKED",
                             !.lock_reason = row.lock_reason]
           ELSE IF row = NoRow
             THEN [me EXCEPT !.pc = "insert"]
           ELSE IF LoginExpired(row, now)
             THEN [me EXCEPT !.pc = "clear"]
           ELSE IF LoginLocked(row, now)
             THEN [out EXCEPT !.code = "ACCOUNT_LOCKED",
                             !.lock_reason = row.lock_reason]
           ELSE [me EXCEPT !.pc = "compare", !.attempts = row.login_attempts]]
  /\ UNCHANGED <<now, users, sec, cookie, gate, checks, orders>>

\* mutant: a plain INSERT by the request whose SELECT found no row
loginInsertPlain(p) ==
  /\ login[p].pc = "insert"
  /\ LET u == login[p].uid
     IN  sec' = [sec EXCEPT ![u] =
           IF sec[u] = NoRow THEN InitialRow ELSE [sec[u] EXCEPT !.copies = @ + 1]]
  /\ login' = [login EXCEPT ![p].pc = "compare", ![p].attempts = 0]
  /\ UNCHANGED <<now, users, cookie, gate, checks, orders>>

\* lines 56-66: INSERT ... ON CONFLICT DO NOTHING, then the local reset
loginInsert(p) ==
  /\ login[p].pc = "insert"
  /\ LET u == login[p].uid
     IN  sec' = [sec EXCEPT ![u] = IF sec[u] = NoRow THEN InitialRow ELSE sec[u]]
  /\ login' = [login EXCEPT ![p].pc = "compare", ![p].attempts = 0]
  /\ UNCHANGED <<now, users, cookie, gate, checks, orders>>

\* lines 70-92: the lazy clear of an expired lock, then the local reset
loginClear(p) ==
  /\ login[p].pc = "clear"
  /\ LET u == login[p].uid
     IN  /\ sec' = [sec EXCEPT ![u] = ExpiredClearRow(sec[u])]
         /\ checks' = [checks EXCEPT ![u] = 0]
  /\ login' = [login EXCEPT ![p].pc = "compare", ![p].attempts = 0]
  /\ UNCHANGED <<now, users, cookie, gate, orders>>

\* lines 115-123: bcrypt.compare resolves
loginCompare(p) ==
  /\ login[p].pc = "compare"
  /\ LET u == login[p].uid
         attempts == login[p].attempts + 1
     IN  IF login[p].match
           THEN /\ login' = [login EXCEPT ![p].pc = "okw"]
                /\ UNCHANGED checks
           ELSE /\ checks[u] < MaxChecks
                /\ checks' = [checks EXCEPT ![u] = @ + 1]
                /\ login' = [login EXCEPT
                     ![p].pc = "failw",
                     ![p].attempts = attempts,
                     ![p].lockedUntil =
                       IF shouldLock(attempts) THEN now + LockMinutes ELSE NULL]
  /\ UNCHANGED <<now, users, sec, cookie, gate, orders>>

\* lines 126-165: the upsert of the failure, then the rejection
loginFailWrite(p) ==
  /\ login[p].pc = "failw"
  /\ LET u == login[p].uid
     IN  sec' = [sec EXCEPT ![u] =
           FailedRow(sec[u], login[p].attempts, login[p].lockedUntil, now)]
  /\ login' = [login EXCEPT ![p] =
       Settle(p, IF shouldLock(login[p].attempts) THEN "ACCOUNT_LOCKED"
                 ELSE "INVALID_PASSWORD", NoReason)]
  /\ UNCHANGED <<now, users, cookie, gate, checks, orders>>

\* lines 184-189: the value loginUser resolves with, of the columns read;
\* name and email are not part of the model
PublicUser(p) == [id |-> login[p].uid, role |-> login[p].role]

\* lines 168-189 and authUser.controller.js 113-118: the upsert of the
\* success, the resolve, and userLogin's generateToken
loginOkWrite(p) ==
  /\ login[p].pc = "okw"
  /\ LET u == login[p].uid
     IN  /\ sec' = [sec EXCEPT ![u] = SuccessRow(sec[u], now)]
         /\ checks' = [checks EXCEPT ![u] = 0]
         /\ cookie' = [cookie EXCEPT ![u] =
                         generateToken(PublicUser(p).id, PublicUser(p).role, now)]
  /\ login' = [login EXCEPT ![p] = Settle(p, "OK", NoReason)]
  /\ UNCHANGED <<now, users, gate, orders>>

loginUser(p) ==
  \/ \E u \in Accounts, pw \in Passwords : loginSelect(p, u, pw)
  \/ loginInsert(p)
  \/ loginClear(p)
  \/ loginCompare(p)
  \/ loginFailWrite(p)
  \/ loginOkWrite(p)

\* lines 190-193: a pool.query of loginUser rejects, the catch rejects the
\* promise with a plain Error
InternalError == "Error interno del servidor"

\* the joined SELECT fails
loginSelectFails(p, u) ==
  /\ login[p].pc = "idle"
  /\ login' = [login EXCEPT ![p] = [IdleLogin EXCEPT !.uid = u, !.code = InternalError]]
  /\ UNCHANGED <<now, users, sec, cookie, gate, checks, orders>>

\* mutant: a failure of the last upsert of a correct password is swallowed
loginWriteFailsOpen(p) ==
  /\ login[p].pc \in {"insert", "clear", "failw", "okw"}
  /\ IF login[p].pc = "okw"
       THEN /\ login' = [login EXCEPT ![p] = Settle(p, "OK", NoReason)]
            /\ cookie' = [cookie EXCEPT ![login[p].uid] =
                            [id |-> login[p].uid, role |-> login[p].role, iat |-> now]]
       ELSE /\ login' = [login EXCEPT ![p] = Settle(p, InternalError, NoReason)]
            /\ UNCHANGED cookie
  /\ UNCHANGED <<now, users, sec, gate, checks, orders>>

\* the INSERT, the lazy clear or one of the two upserts fails: nothing is
\* stored and the promise is rejected
loginWriteFails(p) ==
  /\ login[p].pc \in {"insert", "clear", "failw", "okw"}
  /\ login' = [login EXCEPT ![p] = Settle(p, InternalError, NoReason)]
  /\ UNCHANGED <<now, users, sec, cookie, gate, checks, orders>>

\* authUser.controller.js lines 112-153: the status userLogin answers for
\* the outcome of loginUser
userLoginStatus(code) ==
  IF code = "OK" THEN 200
  ELSE IF code = "ACCOUNT_PERMANENTLY_LOCKED" THEN 423
  ELSE IF code = "ACCOUNT_LOCKED" THEN 423
  ELSE 401

\* ------------------------------ authUser.controller.js: userLogin, inputs
\* emails are tuples of characters so that trim, toLowerCase and isEmail
\* are computed; NoEmail is the empty string and the null of a rejected email
NoEmail == <<>>

EmailAna == <<"a","n","a","@","c","a","f","e",".","c","o">>
EmailAnaTyped == <<" ","A","n","a","@","c","a","f","e",".","c","o">>
EmailNadie == <<"n","o","@","c","a","f","e",".","c","o">>
EmailMalformed == <<"a","n","a",".","c","a","f","e">>
EmailInputs == {NoEmail, EmailAna, EmailAnaTyped, EmailNadie, EmailMalformed}

PasswordInputs == Passwords \cup {"", "abc"}

\* the email under which each id is, or would be, registered
EmailOf == [u \in Users |-> IF u = 1 THEN EmailAna ELSE EmailNadie]

UserByEmail(e) == CHOOSE u \in Users : EmailOf[u] = e

\* String.prototype.toLowerCase on the letters of the inputs
LowerChar(c) == IF c = "A" THEN "a" ELSE c

toLowerCase(s) == [i \in 1..Len(s) |-> LowerChar(s[i])]

\* validator.isEmail: one @ with a local part before it and a dotted
\* domain after it, no blanks
isEmail(e) ==
  /\ \A i \in 1..Len(e) : e[i] # " "
  /\ \E i \in 2..Len(e) :
       /\ e[i] = "@"
       /\ \A j \in 1..Len(e) : e[j] = "@" => j = i
       /\ \E j \in (i + 2)..(Len(e) - 1) : e[j] = "."

\* mutant: the email is cleaned but not validated
validateEmailServerLoose(email) == toLowerCase(trim(email))

\* inputProtect.js lines 81-85
validateEmailServer(email) ==
  LET e == toLowerCase(trim(email))
  IN  IF isEmail(e) THEN e ELSE NoEmail

\* authUser.controller.js lines 106-110
MissingInput == "Email y contrasena son obligatorios."

\* loginUser.js lines 17-19
InvalidEmail == "Email invalido"

\* loginUser.js line 17: emailClean.includes("@")
includesAt(e) == \E i \in 1..Len(e) : e[i] = "@"

\* authUser.controller.js lines 100-118: the checks on the body, then
\* loginUser (lines 9-19: the email validated once more) up to its SELECT;
\* passwords carry no surrounding blanks
userLogin(p, email, password) ==
  LET e == validateEmailServer(email)
      emailClean == validateEmailServer(e)
  IN  IF e = NoEmail \/ Len(password) < 1
        THEN /\ login[p].pc = "idle"
             /\ login' = [login EXCEPT ![p] = [IdleLogin EXCEPT !.code = MissingInput]]
             /\ UNCHANGED <<now, users, sec, cookie, gate, checks, orders>>
      ELSE IF emailClean = NoEmail \/ ~includesAt(emailClean)
        THEN /\ login[p].pc = "idle"
             /\ login' = [login EXCEPT ![p] = [IdleLogin EXCEPT !.code = InvalidEmail]]
             /\ UNCHANGED <<now, users, sec, cookie, gate, checks, orders>>
        ELSE loginSelect(p, UserByEmail(emailClean), password)

\* authUser.controller.js lines 106-153: status, error message and the
\* fields of the body userLogin answers with
userLoginResponse(code) ==
  IF code = MissingInput
    THEN [status |-> 400, error |-> code, fields |-> {"error"}]
  ELSE IF code = "OK"
    THEN [status |-> 200, error |-> "", fields |-> {"message", "user"}]
  ELSE IF code = "ACCOUNT_PERMANENTLY_LOCKED"
    THEN [status |-> 423, error |-> "Cuenta bloqueada permanentemente",
          fields |-> {"error", "code", "lock_reason", "isPermanent"}]
  ELSE IF code = "ACCOUNT_LOCKED"
    THEN [status |-> 423, error |-> "Cuenta bloqueada",
          fields |-> {"error", "code", "remainingMin", "lockedUntil"}]
  ELSE IF code = "INVALID_PASSWORD"
    THEN [status |-> 401, error |-> "Contrasena incorrecta",
          fields |-> {"error", "code", "attempts", "remaining", "maxAttempts"}]
  ELSE [status |-> 401, error |-> code, fields |-> {"error"}]

\* --------------------------- adminChangeData.controller.js: admin handlers
\* mutant: a reason already stored is kept
PermanentLockRowKeepsReason(row, reason) ==
  IF row = NoRow
    THEN [DefaultRow EXCEPT !.is_permanently_locked = TRUE, !.lock_reason = reason]
    ELSE [row EXCEPT !.is_permanently_locked = TRUE,
                     !.lock_reason = IF @ = NoReason THEN reason ELSE @,
                     !.is_locked = FALSE, !.locked_until = NULL]

PermanentLockRow(row, reason) ==
  IF row = NoRow
    THEN [DefaultRow EXCEPT !.is_permanently_locked = TRUE, !.lock_reason = reason]
    ELSE [row EXCEPT !.is_permanently_locked = TRUE, !.lock_reason = reason,
                     !.is_locked = FALSE, !.locked_until = NULL]

\* mutant: a temporary lock replaces the permanent one
TemporaryLockRowDowngrades(row, until, reason) ==
  [Existing(row) EXCEPT !.is_locked = TRUE, !.locked_until = until,
                        !.lock_reason = reason, !.is_permanently_locked = FALSE]

TemporaryLockRow(row, until, reason) ==
  [Existing(row) EXCEPT !.is_locked = TRUE, !.locked_until = until,
                        !.lock_reason = reason]

\* mutant: any reason that is given is accepted
ReasonOkNonEmpty(reason) == reason # NoReason

ReasonOk(reason) == ~(reason = NoReason \/ Len(trim(reason)) < MinReasonLen)

\* lines 240-295
lockUser(u, permanent, duration, reason) ==
  /\ ReasonOk(reason)
  /\ sec' = [sec EXCEPT ![u] =
       IF permanent THEN PermanentLockRow(sec[u], reason)
       ELSE TemporaryLockRow(sec[u], now + duration, reason)]
  /\ UNCHANGED <<now, users, cookie, login, gate, checks, orders>>

\* mutant: only the temporary lock is lifted
UnlockedRowTemporaryOnly(row) ==
  [Existing(row) EXCEPT !.login_attempts = 0, !.is_locked = FALSE,
                        !.locked_until = NULL, !.lock_reason = NoReason]

UnlockedRow(row) ==
  [Existing(row) EXCEPT !.login_attempts = 0, !.is_locked = FALSE,
                        !.locked_until = NULL, !.lock_reason = NoReason,
                        !.is_permanently_locked = FALSE]

\* lines 298-322
unlockUser(u) ==
  /\ sec' = [sec EXCEPT ![u] = UnlockedRow(sec[u])]
  /\ checks' = [checks EXCEPT ![u] = 0]
  /\ UNCHANGED <<now, users, cookie, login, gate, orders>>

\* mutant: the reset also lifts the temporary lock
ResetRowUnlocks(row) ==
  [Existing(row) EXCEPT !.login_attempts = 0, !.is_locked = FALSE,
                        !.locked_until = NULL]

ResetRow(row) == [Existing(row) EXCEPT !.login_attempts = 0]

\* lines 325-340
resetAttempts(u) ==
  /\ sec' = [sec EXCEPT ![u] = ResetRow(sec[u])]
  /\ checks' = [checks EXCEPT ![u] = 0]
  /\ UNCHANGED <<now, users, cookie, login, gate, orders>>

\* lines 105-115: the WHERE clause and the SET list of the cleanup UPDATE
CleanupMatches(row, t) ==
  /\ row # NoRow
  /\ row.is_permanently_locked = FALSE
  /\ row.locked_until # NULL
  /\ row.locked_until <= t

\* mutant: the cleanup clears the deadline and leaves the flag
CleanedRowKeepsFlag(row) ==
  [row EXCEPT !.locked_until = NULL, !.lock_reason = NoReason,
              !.login_attempts = 0]

CleanedRow(row) ==
  [row EXCEPT !.is_locked = FALSE, !.locked_until = NULL,
              !.lock_reason = NoReason, !.login_attempts = 0]

\* lines 93-194; the SELECTs after the cleanup change nothing
getUsersSecurity ==
  /\ \E u \in Users : CleanupMatches(sec[u], now)
  /\ sec' = [u \in Users |->
       IF CleanupMatches(sec[u], now) THEN CleanedRow(sec[u]) ELSE sec[u]]
  /\ checks' = [u \in Users |->
       IF CleanupMatches(sec[u], now) THEN 0 ELSE checks[u]]
  /\ UNCHANGED <<now, users, cookie, login, gate, orders>>

\* ------------------------------- authUser.controller.js: authUserWithGoogle
\* lines 14-98, for an account that exists: the users row is found and
\* re-read, and the token is issued; user_security is never read
authUserWithGoogle(u) ==
  /\ users[u] # NoUser
  /\ cookie' = [cookie EXCEPT ![u] = generateToken(u, users[u].role, now)]
  /\ UNCHANGED <<now, users, sec, login, gate, checks, orders>>

\* -------------------------------------------------- jwt.js: verifyToken
\* mutant: the clock is read in seconds
TokenExpiredSeconds(token, t) == t * 60 >= token.iat + TokenLifetime

TokenExpired(token, t) == t >= token.iat + TokenLifetime

\* mutant: the role is taken from the decoded token
PrincipalFromToken(token, row) == [id |-> token.id, role |-> token.role]

\* line 43: req.user is the row just read from users
Principal(token, row) == [id |-> token.id, role |-> row.role]

\* roleCheck.js lines 7-43
requireRole(allowedRoles, role) == role # "" /\ role \in allowedRoles

\* routes/admin.js lines 1410-1505 and routes/profile.js line 425: the
\* routes behind requireAdmin, and the routes whose chain has checkAccountLock
AdminRoutes == {"role", "delete", "lock", "unlock", "reset"}

\* the routes behind requireAdminOrViewer (roleCheck.js line 53)
ViewerRoutes == {"security", "order"}

LockCheckedRoutes == {"profile", "role", "delete", "order"}

\* the roles the requireRole of the route lets through
RouteRoles(route) == IF route \in AdminRoutes THEN {"admin"} ELSE {"admin", "viewer"}

\* mutant: the users row is not looked up, the decoded token is trusted
verifyTokenSkipsLookup(g, u, route) ==
  /\ gate[g].pc = "idle"
  /\ cookie[u] # NoToken
  /\ LET token == cookie[u]
         me == [IdleGate EXCEPT !.route = route, !.uid = token.id,
                                !.tokenRole = token.role]
     IN  gate' = [gate EXCEPT ![g] =
           IF TokenExpired(token, now)
             THEN [me EXCEPT !.status = 401]
           ELSE IF route \in AdminRoutes \cup ViewerRoutes
                     /\ ~requireRole(RouteRoles(route), token.role)
             THEN [me EXCEPT !.status = 403, !.code = "INSUFFICIENT_PERMISSIONS"]
           ELSE [me EXCEPT !.pc = IF route \in LockCheckedRoutes
                                    THEN "lock" ELSE "handler",
                           !.role = token.role]]
  /\ UNCHANGED <<now, users, sec, cookie, login, checks, orders>>

\* lines 11-58 and the guard of the route: the token of the cookie is
\* verified, the user row re-read, req.user set
verifyToken(g, u, route) ==
  /\ gate[g].pc = "idle"
  /\ cookie[u] # NoToken
  /\ LET token == cookie[u]
         row == users[token.id]
         me == [IdleGate EXCEPT !.route = route, !.uid = token.id,
                                !.tokenRole = token.role]
     IN  gate' = [gate EXCEPT ![g] =
           IF TokenExpired(token, now) \/ row = NoUser
             THEN [me EXCEPT !.status = 401]
           ELSE IF route \in AdminRoutes \cup ViewerRoutes
                     /\ ~requireRole(RouteRoles(route), Principal(token, row).role)
             THEN [me EXCEPT !.status = 403, !.code = "INSUFFICIENT_PERMISSIONS"]
           ELSE [me EXCEPT !.pc = IF route \in LockCheckedRoutes
                                    THEN "lock" ELSE "handler",
                           !.role = Principal(token, row).role]]
  /\ UNCHANGED <<now, users, sec, cookie, login, checks, orders>>

\* ------------------------------------ inputProtect.js: sanitizeToken
\* tokens on the wire are tuples of characters; NoHeader is the absent
\* cookie and the null sanitizeToken returns
NoHeader == <<>>

\* line 144: the characters the replace leaves in place
LegalTokenChars ==
  {"a", "b", "c", "d", "e", "f", "g", "h", "i", "j", "k", "l", "m",
   "n", "o", "p", "q", "r", "s", "t", "u", "v", "w", "x", "y", "z",
   "A", "B", "C", "D", "E", "F", "G", "H", "I", "J", "K", "L", "M",
   "N", "O", "P", "Q", "R", "S", "T", "U", "V", "W", "X", "Y", "Z",
   "0", "1", "2", "3", "4", "5", "6", "7", "8", "9", "-", "_", "."}

\* line 145: clean.length > 10
MinTokenLen == 10

\* mutant: a token with a character outside the class is refused
sanitizeTokenStrict(token) ==
  IF \A i \in 1..Len(token) : token[i] \in LegalTokenChars
       /\ Len(token) > MinTokenLen
    THEN token ELSE NoHeader

\* lines 142-146: the characters outside the class are removed, what is
\* left is the token when it is longer than 10 characters
sanitizeToken(token) ==
  LET clean == SelectSeq(token, LAMBDA c : c \in LegalTokenChars)
  IN  IF Len(clean) > MinTokenLen THEN clean ELSE NoHeader

\* jwt.js lines 63-82: jwt.sign as header.payload.signature; the payload
\* spells the id, the role and iat of the token, the signature stands for
\* the HMAC only the server can compute
DigitChars == <<"0", "1", "2", "3", "4", "5", "6", "7", "8", "9">>

RoleChar(role) ==
  IF role = "admin" THEN "a" ELSE IF role = "viewer" THEN "v" ELSE "u"

sign(token) ==
  <<"e", "y", "J", "h", "b", "G", ".",
    DigitChars[token.id + 1], RoleChar(token.role),
    DigitChars[(token.iat \div 10) + 1], DigitChars[(token.iat % 10) + 1],
    ".", "s", "-", "_", "K">>

\* jwt.js lines 11-31 and 45-52: the cookie is sanitized; without a token
\* the answer is 401, with a token jwt.verify does not accept it is 403,
\* and with one it accepts the request goes on as verifyToken above
verifyTokenHeader(g, header, route) ==
  LET token == sanitizeToken(header)
  IN  IF token = NoHeader
        THEN /\ gate[g].pc = "idle"
             /\ gate' = [gate EXCEPT ![g] =
                  [IdleGate EXCEPT !.route = route, !.status = 401,
                                   !.code = "No autorizado"]]
             /\ UNCHANGED <<now, users, sec, cookie, login, checks, orders>>
      ELSE IF \A u \in Users : cookie[u] = NoToken \/ sign(cookie[u]) # token
        THEN /\ gate[g].pc = "idle"
             /\ gate' = [gate EXCEPT ![g] =
                  [IdleGate EXCEPT !.route = route, !.status = 403,
                                   !.code = "Token manipulado o invalido"]]
             /\ UNCHANGED <<now, users, sec, cookie, login, checks, orders>>
        ELSE \E u \in Users :
               /\ cookie[u] # NoToken
               /\ sign(cookie[u]) = token
               /\ verifyToken(g, u, route)

\* ------------------------------------- inputProtect.js: checkAccountLock
isTemporarilyLocked(row, t) ==
  row.is_locked \/ (row.locked_until # NULL /\ row.locked_until > t)

GateExpired(row, t) == row.locked_until # NULL /\ row.locked_until < t

GateClearedRow(row) ==
  [row EXCEPT !.is_locked = FALSE, !.locked_until = NULL,
              !.lock_reason = NoReason, !.login_attempts = 0]

\* mutant: the temporary lock is tested before the permanent one
LockVerdictTemporaryFirst(row, t) ==
  IF row = NoRow THEN "next"
  ELSE IF isTemporarilyLocked(row, t) THEN "ACCOUNT_LOCKED"
  ELSE IF row.is_permanently_locked THEN "ACCOUNT_PERMANENTLY_LOCKED"
  ELSE IF GateExpired(row, t) THEN "clear"
  ELSE "next"

\* what the middleware answers on the row it read: lines 297-362
LockVerdict(row, t) ==
  IF row = NoRow THEN "next"
  ELSE IF row.is_permanently_locked THEN "ACCOUNT_PERMANENTLY_LOCKED"
  ELSE IF isTemporarilyLocked(row, t) THEN "ACCOUNT_LOCKED"
  ELSE IF GateExpired(row, t) THEN "clear"
  ELSE "next"

\* lines 283-346: the SELECT and the verdict
checkAccountLock(g) ==
  /\ gate[g].pc = "lock"
  /\ LET v == LockVerdict(sec[gate[g].uid], now)
         out == [IdleGate EXCEPT !.route = gate[g].route, !.uid = gate[g].uid,
                                 !.tokenRole = gate[g].tokenRole]
     IN  gate' = [gate EXCEPT ![g] =
           IF v = "next" THEN [gate[g] EXCEPT !.pc = "handler"]
           ELSE IF v = "clear" THEN [gate[g] EXCEPT !.pc = "clear"]
           ELSE [out EXCEPT !.status = 423, !.code = v]]
  /\ UNCHANGED <<now, users, sec, cookie, login, checks, orders>>

\* lines 348-364: the UPDATE of the lazy clear, then next().  No writer of
\* user_security leaves is_locked false with locked_until set, so no
\* specification below reaches pc = "clear".
checkAccountLockClear(g) ==
  /\ gate[g].pc = "clear"
  /\ LET u == gate[g].uid
     IN  /\ sec' = [sec EXCEPT ![u] =
               IF sec[u] = NoRow THEN NoRow ELSE GateClearedRow(sec[u])]
         /\ checks' = [checks EXCEPT ![u] = IF sec[u] = NoRow THEN @ ELSE 0]
  /\ gate' = [gate EXCEPT ![g].pc = "handler"]
  /\ UNCHANGED <<now, users, cookie, login, orders>>

\* lines 290-295 and 365-368: the SELECT rejects, the catch logs and calls
\* next()
checkAccountLockFails(g) ==
  /\ gate[g].pc = "lock"
  /\ gate' = [gate EXCEPT ![g].pc = "handler"]
  /\ UNCHANGED <<now, users, sec, cookie, login, checks, orders>>

\* the answer of a route handler
Answer(g, status) ==
  [IdleGate EXCEPT !.route = gate[g].route, !.uid = gate[g].uid,
                   !.tokenRole = gate[g].tokenRole,
                   !.status = status, !.code = "handler"]

\* authUser.controller.js lines 156-183: GET /profile reads and answers
getProfile(g) ==
  /\ gate[g].pc = "handler"
  /\ gate[g].route = "profile"
  /\ gate' = [gate EXCEPT ![g] =
       Answer(g, IF users[gate[g].uid] = NoUser THEN 404 ELSE 200)]
  /\ UNCHANGED <<now, users, sec, cookie, login, checks, orders>>

\* adminChangeData.controller.js lines 409-437: PUT /users/:id/role
validRoles == {"user", "admin", "viewer"}

changeRolUser(g, userId, newRole) ==
  /\ gate[g].pc = "handler"
  /\ gate[g].route = "role"
  /\ IF newRole \notin validRoles \/ userId = gate[g].uid
       THEN /\ gate' = [gate EXCEPT ![g] = Answer(g, 400)]
            /\ UNCHANGED users
     ELSE IF users[userId] = NoUser
       THEN /\ gate' = [gate EXCEPT ![g] = Answer(g, 404)]
            /\ UNCHANGED users
     ELSE /\ gate' = [gate EXCEPT ![g] = Answer(g, 200)]
          /\ users' = [users EXCEPT ![userId].role = newRole]
  /\ UNCHANGED <<now, sec, cookie, login, checks, orders>>

\* lines 240-295 behind the gate: POST /security/users/:id/lock answers 400
\* for a missing or short reason, else runs the upsert of lockUser
lockUserRequest(g, id, permanent, duration, reason) ==
  /\ gate[g].pc = "handler"
  /\ gate[g].route = "lock"
  /\ IF ~ReasonOk(reason)
       THEN /\ gate' = [gate EXCEPT ![g] = Answer(g, 400)]
            /\ UNCHANGED sec
       ELSE /\ gate' = [gate EXCEPT ![g] = Answer(g, 200)]
            /\ sec' = [sec EXCEPT ![id] =
                 IF permanent THEN PermanentLockRow(sec[id], reason)
                 ELSE TemporaryLockRow(sec[id], now + duration, reason)]
  /\ UNCHANGED <<now, users, cookie, login, checks, orders>>

\* lines 298-322 behind the gate: POST /security/users/:id/unlock
unlockUserRequest(g, id) ==
  /\ gate[g].pc = "handler"
  /\ gate[g].route = "unlock"
  /\ sec' = [sec EXCEPT ![id] = UnlockedRow(sec[id])]
  /\ checks' = [checks EXCEPT ![id] = 0]
  /\ gate' = [gate EXCEPT ![g] = Answer(g, 200)]
  /\ UNCHANGED <<now, users, cookie, login, orders>>

\* lines 325-340 behind the gate: POST /security/users/:id/reset-attempts
resetAttemptsRequest(g, id) ==
  /\ gate[g].pc = "handler"
  /\ gate[g].route = "reset"
  /\ sec' = [sec EXCEPT ![id] = ResetRow(sec[id])]
  /\ checks' = [checks EXCEPT ![id] = 0]
  /\ gate' = [gate EXCEPT ![g] = Answer(g, 200)]
  /\ UNCHANGED <<now, users, cookie, login, orders>>

\* lines 93-194 behind the gate: GET /security/users runs the cleanup UPDATE
\* for whoever passed requireAdminOrViewer, then answers the list
getUsersSecurityRequest(g) ==
  /\ gate[g].pc = "handler"
  /\ gate[g].route = "security"
  /\ sec' = [u \in Users |->
       IF CleanupMatches(sec[u], now) THEN CleanedRow(sec[u]) ELSE sec[u]]
  /\ checks' = [u \in Users |->
       IF CleanupMatches(sec[u], now) THEN 0 ELSE checks[u]]
  /\ gate' = [gate EXCEPT ![g] = Answer(g, 200)]
  /\ UNCHANGED <<now, users, cookie, login, orders>>

\* lines 5-35: PATCH /change-order/:id/status
validStatuses == {"pendiente", "procesando", "enviado", "completado", "cancelado"}

getStateOrder(g, id, status) ==
  /\ gate[g].pc = "handler"
  /\ gate[g].route = "order"
  /\ IF status \notin validStatuses
       THEN /\ gate' = [gate EXCEPT ![g] = Answer(g, 400)]
            /\ UNCHANGED orders
     ELSE IF id \notin DOMAIN orders
       THEN /\ gate' = [gate EXCEPT ![g] = Answer(g, 404)]
            /\ UNCHANGED orders
     ELSE /\ gate' = [gate EXCEPT ![g] = Answer(g, 200)]
          /\ orders' = [orders EXCEPT ![id] = status]
  /\ UNCHANGED <<now, users, sec, cookie, login, checks>>

\* lines 439-490: DELETE /users/:id
AdminCount(us) ==
  Cardinality({u \in Users : us[u] # NoUser /\ us[u].role = "admin"})

isLastAdmin(deletingRole, adminCount, role) ==
  deletingRole = "admin" /\ adminCount = 1 /\ role = "admin"

\* lines 441-458: the two checks on req.user, then SELECT COUNT(*)
deleteUserCount(g, userId) ==
  /\ gate[g].pc = "handler"
  /\ gate[g].route = "delete"
  /\ gate' = [gate EXCEPT ![g] =
       IF userId = gate[g].uid THEN Answer(g, 400)
       ELSE IF gate[g].role # "admin" THEN Answer(g, 403)
       ELSE [gate[g] EXCEPT !.pc = "delrole", !.target = userId,
                            !.adminCount = AdminCount(users)]]
  /\ UNCHANGED <<now, users, sec, cookie, login, checks, orders>>

\* lines 460-473: SELECT role of the target, then the last-admin check
deleteUserRole(g) ==
  /\ gate[g].pc = "delrole"
  /\ LET deletingRole == IF users[gate[g].target] = NoUser THEN ""
                         ELSE users[gate[g].target].role
     IN  gate' = [gate EXCEPT ![g] =
           IF isLastAdmin(deletingRole, gate[g].adminCount, gate[g].role)
             THEN Answer(g, 400)
           ELSE [gate[g] EXCEPT !.pc = "delete", !.deletingRole = deletingRole]]
  /\ UNCHANGED <<now, users, sec, cookie, login, checks, orders>>

\* lines 475-486: DELETE FROM users ... RETURNING id
deleteUserDelete(g) ==
  /\ gate[g].pc = "delete"
  /\ IF users[gate[g].target] = NoUser
       THEN /\ gate' = [gate EXCEPT ![g] = Answer(g, 404)]
            /\ UNCHANGED users
       ELSE /\ gate' = [gate EXCEPT ![g] = Answer(g, 200)]
            /\ users' = [users EXCEPT ![gate[g].target] = NoUser]
  /\ UNCHANGED <<now, sec, cookie, login, checks, orders>>

deleteUser(g) ==
  \/ \E userId \in Users : deleteUserCount(g, userId)
  \/ deleteUserRole(g)
  \/ deleteUserDelete(g)

\* ---------------------------------------------------- the specifications
SeqProcs == {1}

SeqGates == {1}

Admin ==
  \E u \in Accounts :
    \/ \E permanent \in BOOLEAN, d \in Durations, r \in ReasonInputs :
         lockUser(u, permanent, d, r)
    \/ unlockUser(u)
    \/ resetAttempts(u)

Request ==
  \E g \in SeqGates :
    \/ \E u \in Accounts : verifyToken(g, u, "profile")
    \/ checkAccountLock(g)
    \/ getProfile(g)

Next ==
  \/ Tick
  \/ \E p \in SeqProcs : loginUser(p)
  \/ Admin
  \/ getUsersSecurity
  \/ \E u \in Accounts : authUserWithGoogle(u)
  \/ Request

Spec == Init /\ [][Next]_vars

\* concurrent logins on one account
NextRace ==
  \/ Tick
  \/ \E p \in LoginProcs : loginUser(p)
  \/ \E u \in Accounts : unlockUser(u)
  \/ \E u \in Accounts : resetAttempts(u)

SpecRace == Init /\ [][NextRace]_vars

\* roles and tokens: both users sign in, admins change roles
RoleInputs == {"user", "admin", "viewer", "root"}

NextRole ==
  \/ Tick
  \/ \E u \in Users : authUserWithGoogle(u)
  \/ \E g \in SeqGates :
       \/ \E u \in Users, route \in {"profile", "role"} : verifyToken(g, u, route)
       \/ checkAccountLock(g)
       \/ getProfile(g)
       \/ \E u \in Users, r \in RoleInputs : changeRolUser(g, u, r)

InitRole == InitWith([u \in Users |-> "admin"])

SpecRole == InitRole /\ [][NextRole]_vars

\* storage failures: any query of a login or of the lock check may reject
NextFault ==
  \/ Tick
  \/ \E p \in SeqProcs :
       \/ loginUser(p)
       \/ \E u \in Accounts : loginSelectFails(p, u)
       \/ loginWriteFails(p)
  \/ \E u \in Accounts, permanent \in BOOLEAN :
       lockUser(u, permanent, LockMinutes, ReasonFraude)
  \/ \E g \in SeqGates :
       \/ \E u \in Accounts : verifyToken(g, u, "profile")
       \/ checkAccountLock(g)
       \/ checkAccountLockFails(g)
       \/ getProfile(g)

SpecFault == Init /\ [][NextFault]_vars

\* the admin routes behind the gate, with the clock of the token lifetime
LockReasons == ReasonInputs \cup {NoReason}

NextAdmin ==
  \/ TickToken
  \/ \E u \in Users : authUserWithGoogle(u)
  \/ \E g \in SeqGates :
       \/ \E u \in Users, route \in {"profile", "lock", "delete", "role"} :
            verifyToken(g, u, route)
       \/ checkAccountLock(g)
       \/ getProfile(g)
       \/ \E id \in Accounts, permanent \in BOOLEAN, d \in Durations,
             r \in LockReasons : lockUserRequest(g, id, permanent, d, r)
       \/ deleteUser(g)
       \/ \E u \in Users, r \in RoleInputs : changeRolUser(g, u, r)

SpecAdmin == Init /\ [][NextAdmin]_vars

\* two admins whose requests on DELETE /users/:id and PUT /users/:id/role
\* run concurrently
NextDelete ==
  \/ \E u \in Users : authUserWithGoogle(u)
  \/ \E g \in GateProcs :
       \/ \E u \in Users, route \in {"delete", "role"} : verifyToken(g, u, route)
       \/ checkAccountLock(g)
       \/ deleteUser(g)
       \/ \E u \in Users, r \in RoleInputs : changeRolUser(g, u, r)

SpecDelete == InitRole /\ [][NextDelete]_vars

\* the inputs of POST /login: two clients, a registered email and an email
\* with no users row; no lock expires, so the lazy clear is never reached
InitInput ==
  /\ now = 0
  /\ users = [u \in Users |->
       IF u = 1 THEN [role |-> "user", password |-> "secreto1"] ELSE NoUser]
  /\ sec = [u \in Users |-> NoRow]
  /\ cookie = [u \in Users |-> NoToken]
  /\ login = [p \in LoginProcs |-> IdleLogin]
  /\ gate = [g \in GateProcs |-> IdleGate]
  /\ checks = [u \in Users |-> 0]
  /\ orders = [o \in Orders |-> "pendiente"]

NextInput ==
  \E p \in LoginProcs :
    \/ \E email \in EmailInputs, password \in PasswordInputs :
         userLogin(p, email, password)
    \/ loginInsert(p)
    \/ loginCompare(p)
    \/ loginFailWrite(p)
    \/ loginOkWrite(p)

SpecInput == InitInput /\ [][NextInput]_vars

\* a viewer and an admin on the routes of the admin panel
StatusInputs == {"enviado", "cancelado", "perdido"}

OrderIds == {1, 2}

InitViewer == InitWith([u \in Users |-> IF u = 2 THEN "admin" ELSE "viewer"])

NextViewer ==
  \/ Tick
  \/ \E u \in Users : authUserWithGoogle(u)
  \/ \E g \in SeqGates :
       \/ \E u \in Users, route \in {"security", "order", "lock"} :
            verifyToken(g, u, route)
       \/ checkAccountLock(g)
       \/ getUsersSecurityRequest(g)
       \/ \E id \in OrderIds, status \in StatusInputs : getStateOrder(g, id, status)
       \/ \E id \in Users, permanent \in BOOLEAN, d \in Durations :
            lockUserRequest(g, id, permanent, d, ReasonFraude)

SpecViewer == InitViewer /\ [][NextViewer]_vars

\* ================================================================ claims
RowOf(u) == Existing(sec[u])

\* the step of request p that runs the joined SELECT of loginUser
Selects(p) == login[p].pc = "idle" /\ login'[p] # login[p]

\* the step of request p that runs the last upsert of loginUser
Writes(p) == login[p].pc \in {"failw", "okw"} /\ login'[p].pc = "idle"

\* C1: the fifth failed password check in a row (no success, unlock, reset
\* or lazy clear in between) is answered ACCOUNT_LOCKED and leaves the row
\* locked until 15 minutes later; a correct password submitted after it and
\* before locked_until is rejected with ACCOUNT_LOCKED.
C1_FifthFailureLocks ==
  [][\A p \in LoginProcs :
       /\ (login[p].pc = "failw" /\ login'[p].pc = "idle"
             /\ checks[login[p].uid] = maxAttempts)
            => /\ login'[p].code = "ACCOUNT_LOCKED"
               /\ sec'[login[p].uid].is_locked
               /\ sec'[login[p].uid].login_attempts = maxAttempts
               /\ sec'[login[p].uid].locked_until = login[p].lockedUntil
               /\ login[p].lockedUntil # NULL
       /\ (Selects(p) /\ login'[p].match
             /\ checks[login'[p].uid] = maxAttempts
             /\ ~RowOf(login'[p].uid).is_permanently_locked
             /\ RowOf(login'[p].uid).locked_until # NULL
             /\ now < RowOf(login'[p].uid).locked_until)
            => /\ login'[p].pc = "idle"
               /\ login'[p].code = "ACCOUNT_LOCKED"
  ]_vars

C1_Witness ==
  \E p \in LoginProcs :
    /\ login[p].pc = "idle" /\ login[p].code = "ACCOUNT_LOCKED" /\ login[p].match
    /\ checks[login[p].uid] = maxAttempts
    /\ RowOf(login[p].uid).is_locked
    /\ RowOf(login[p].uid).lock_reason = AutoReason
    /\ now < RowOf(login[p].uid).locked_until

\* C2: a login with the correct password that reads a temporarily locked
\* account (not permanently locked) at now >= locked_until is not rejected:
\* it goes on to the lazy clear.
C2_ExpiredAtOrAfterDeadline ==
  [][\A p \in LoginProcs :
       (Selects(p) /\ login'[p].match
          /\ ~RowOf(login'[p].uid).is_permanently_locked
          /\ RowOf(login'[p].uid).locked_until # NULL
          /\ now >= RowOf(login'[p].uid).locked_until)
         => login'[p].pc = "clear"
  ]_vars

C4_OnlyUnlockClearsPermanent ==
  [][\A u \in Users :
       (RowOf(u).is_permanently_locked /\ ~Existing(sec'[u]).is_permanently_locked)
         => unlockUser(u)
  ]_vars

C4_Witness ==
  \E u \in Users :
    /\ RowOf(u).is_permanently_locked
    /\ RowOf(u).is_locked
    /\ RowOf(u).locked_until # NULL /\ RowOf(u).locked_until < now
    /\ \E p \in LoginProcs : login[p].code = "ACCOUNT_PERMANENTLY_LOCKED"

\* C5: no step issues a token (sets the access_token cookie) for an account
\* whose is_permanently_locked is true.
C5_NoTokenWhilePermanent ==
  [][\A u \in Users :
       cookie'[u] # cookie[u] => ~RowOf(u).is_permanently_locked
  ]_vars

\* C6: of two concurrent wrong-password logins on an account at 4 attempts,
\* only one computes attempts = 5 from a read of 4.
C6_FiveComputedOnce ==
  \A p, q \in LoginProcs :
    (p # q /\ login[p].pc = "failw" /\ login[q].pc = "failw"
       /\ login[p].uid = login[q].uid)
      => ~(login[p].attempts = maxAttempts /\ login[q].attempts = maxAttempts)

\* C7: no sixth failed password check happens before the counter is reset.
C7_NoSixthCheck == \A u \in Users : checks[u] <= maxAttempts

\* C8: the last upsert of a login does not undo a lock an admin has put on
\* the row while the login was in flight.
C8_AdminLockKept ==
  [][\A p \in LoginProcs :
       (Writes(p) /\ sec[login[p].uid] # NoRow)
         => LET row == sec[login[p].uid]
                after == sec'[login[p].uid]
            IN  /\ row.is_permanently_locked => after.is_permanently_locked
                /\ (row.is_locked /\ row.lock_reason \in ReasonInputs)
                     => /\ after.is_locked
                        /\ after.locked_until = row.locked_until
  ]_vars

\* C9: verifyToken attaches the stored role, and a request on an admin
\* route gets past requireAdmin only if the stored role is admin.
C9_StoredRoleDecides ==
  [][\A g \in GateProcs :
       (gate[g].pc = "idle" /\ gate'[g].pc = "lock")
         => /\ gate'[g].role = users[gate'[g].uid].role
            /\ gate'[g].route = "role" => users[gate'[g].uid].role = "admin"
  ]_vars

C9_Witness ==
  \E g \in GateProcs :
    /\ gate[g].status = 403 /\ gate[g].tokenRole = "admin" /\ gate[g].route = "role"
    /\ \E u \in Users : cookie[u] # NoToken /\ cookie[u].role = "admin"
                        /\ users[u].role # "admin"

\* C10: checkAccountLock answers 423 ACCOUNT_PERMANENTLY_LOCKED for a
\* permanently locked account and 423 ACCOUNT_LOCKED for a temporary lock
\* with now < locked_until; the handler is not reached.
C10_GateRejectsLocked ==
  [][\A g \in GateProcs :
       (gate[g].pc = "lock" /\ gate'[g] # gate[g])
         => LET row == RowOf(gate[g].uid)
            IN  /\ row.is_permanently_locked
                     => /\ gate'[g].pc = "idle" /\ gate'[g].status = 423
                        /\ gate'[g].code = "ACCOUNT_PERMANENTLY_LOCKED"
                /\ (~row.is_permanently_locked /\ row.locked_until # NULL
                      /\ now < row.locked_until)
                     => /\ gate'[g].pc = "idle" /\ gate'[g].status = 423
                        /\ gate'[g].code = "ACCOUNT_LOCKED"
  ]_vars

C10_Witness ==
  \E g \in GateProcs :
    /\ gate[g].status = 423 /\ gate[g].code = "ACCOUNT_LOCKED"
    /\ ~RowOf(gate[g].uid).is_permanently_locked
    /\ RowOf(gate[g].uid).locked_until # NULL
    /\ now < RowOf(gate[g].uid).locked_until

\* C11: a request whose checkAccountLock reads a temporary lock (not a
\* permanent one) with locked_until in the past is not rejected: it is passed
\* on, to the lazy clear or to the handler.
C11_ExpiredLockPassesGate ==
  [][\A g \in GateProcs :
       (gate[g].pc = "lock" /\ gate'[g] # gate[g]
          /\ ~RowOf(gate[g].uid).is_permanently_locked
          /\ RowOf(gate[g].uid).locked_until # NULL
          /\ RowOf(gate[g].uid).locked_until < now)
         => /\ gate'[g].pc \in {"clear", "handler"}
            /\ gate'[g].status # 423
  ]_vars

\* C12: a request whose security-state read in checkAccountLock fails is
\* not handed to the route handler: it ends with an error status.
C12_GateFailsClosed ==
  [][\A g \in GateProcs :
       checkAccountLockFails(g)
         => /\ gate'[g].pc = "idle"
            /\ gate'[g].status >= 500
  ]_vars

\* C13: a step in which a query of loginUser fails settles the call with a
\* rejection that userLogin answers without success, and neither stores
\* anything nor issues a token; a step that issues a token is a Google login
\* or the stored success upsert of a login whose password matched.
C13_LoginFailsClosed ==
  [][\A p \in LoginProcs :
       /\ (loginWriteFails(p) \/ \E u \in Accounts : loginSelectFails(p, u))
            => /\ login'[p].pc = "idle"
               /\ login'[p].code = InternalError
               /\ userLoginStatus(login'[p].code) \notin {200}
               /\ cookie' = cookie
               /\ sec' = sec
       /\ \A u \in Users :
            cookie'[u] # cookie[u]
              => \/ authUserWithGoogle(u)
                 \/ \E q \in LoginProcs :
                      /\ login[q].pc = "okw" /\ login[q].uid = u /\ login[q].match
                      /\ sec'[u].last_login = now
                      /\ userLoginStatus(login'[q].code) = 200
  ]_vars

\* a correct password whose success upsert failed: rejected, no token
C13_Witness ==
  \E p \in LoginProcs :
    /\ login[p].pc = "idle" /\ login[p].code = InternalError /\ login[p].match
    /\ cookie[login[p].uid] = NoToken
    /\ sec[login[p].uid] # NoRow
    /\ sec[login[p].uid].last_login = NULL
    /\ sec[login[p].uid].login_attempts > 0
    /\ ~sec[login[p].uid].is_locked
    /\ sec[login[p].uid].locked_until = NULL
    /\ ~sec[login[p].uid].is_permanently_locked

\* C14: unlockUser leaves login_attempts = 0, is_locked = false,
\* locked_until = NULL, lock_reason = NULL and is_permanently_locked = false
\* from any row, and a second unlockUser changes nothing more.
C14_UnlockIdempotent ==
  [][\A u \in Users :
       unlockUser(u)
         => /\ sec'[u].login_attempts = 0
            /\ sec'[u].is_locked = FALSE
            /\ sec'[u].locked_until = NULL
            /\ sec'[u].lock_reason = NoReason
            /\ sec'[u].is_permanently_locked = FALSE
            /\ UnlockedRow(sec'[u]) = sec'[u]
            /\ UnlockedRow(UnlockedRow(sec[u])) = UnlockedRow(sec[u])
  ]_vars

\* an account that was rejected as permanently locked and is open again
C14_Witness ==
  \E p \in LoginProcs :
    /\ login[p].code = "ACCOUNT_PERMANENTLY_LOCKED"
    /\ sec[login[p].uid] # NoRow
    /\ sec[login[p].uid] = UnlockedRow(sec[login[p].uid])
    /\ sec[login[p].uid].last_failed_login # NULL

\* C15: resetAttempts stores login_attempts = 0 and leaves is_locked,
\* locked_until, is_permanently_locked and lock_reason as they were; a login
\* that reads login_attempts = 0 on an account that is permanently locked or
\* temporarily locked with now < locked_until is rejected as locked.
C15_ResetKeepsLocks ==
  [][/\ \A u \in Users :
          resetAttempts(u)
            => /\ sec'[u].login_attempts = 0
               /\ sec'[u].is_locked = RowOf(u).is_locked
               /\ sec'[u].locked_until = RowOf(u).locked_until
               /\ sec'[u].is_permanently_locked = RowOf(u).is_permanently_locked
               /\ sec'[u].lock_reason = RowOf(u).lock_reason
     /\ \A p \in LoginProcs :
          (Selects(p) /\ login'[p].match
             /\ RowOf(login'[p].uid).login_attempts = 0
             /\ \/ RowOf(login'[p].uid).is_permanently_locked
                \/ /\ RowOf(login'[p].uid).locked_until # NULL
                   /\ now < RowOf(login'[p].uid).locked_until)
            => /\ login'[p].pc = "idle"
               /\ login'[p].code \in {"ACCOUNT_LOCKED", "ACCOUNT_PERMANENTLY_LOCKED"}
  ]_vars

\* an automatic lock whose counter was reset, and a correct password
\* rejected while it is active
C15_Witness ==
  \E p \in LoginProcs :
    /\ login[p].pc = "idle" /\ login[p].code = "ACCOUNT_LOCKED" /\ login[p].match
    /\ RowOf(login[p].uid).login_attempts = 0
    /\ RowOf(login[p].uid).is_locked
    /\ RowOf(login[p].uid).lock_reason = AutoReason
    /\ now < RowOf(login[p].uid).locked_until

\* C16: a login that reaches the password comparison works on the counter
\* it read; when the comparison fails it adds exactly 1; with 4 read it is
\* answered ACCOUNT_LOCKED and stores 5, is_locked and locked_until = the
\* time of the comparison + 15 minutes; with less than 4 read it is answered
\* INVALID_PASSWORD and stores the counter + 1 on an unlocked row.
C16_FailedAttemptOutcome ==
  [][\A p \in LoginProcs :
       /\ (Selects(p) /\ login'[p].pc = "compare")
            => /\ login'[p].attempts = RowOf(login'[p].uid).login_attempts
               /\ ~RowOf(login'[p].uid).is_locked
       /\ (login[p].pc = "compare" /\ login'[p].pc = "failw")
            => /\ ~login[p].match
               /\ login'[p].attempts = login[p].attempts + 1
               /\ login'[p].lockedUntil =
                    IF login[p].attempts = maxAttempts - 1
                      THEN now + LockMinutes ELSE NULL
       /\ (login[p].pc = "failw" /\ login'[p].pc = "idle")
            => LET row == sec'[login[p].uid]
               IN  /\ row.login_attempts = login[p].attempts
                   /\ login[p].attempts = maxAttempts
                        => /\ login'[p].code = "ACCOUNT_LOCKED"
                           /\ row.is_locked
                           /\ row.locked_until = login[p].lockedUntil
                           /\ row.locked_until # NULL
                   /\ login[p].attempts < maxAttempts
                        => /\ login'[p].code = "INVALID_PASSWORD"
                           /\ ~row.is_locked
                           /\ row.locked_until = NULL
  ]_vars

\* the fifth wrong password was just answered
C16_Witness ==
  \E p \in LoginProcs :
    /\ login[p].pc = "idle" /\ login[p].code = "ACCOUNT_LOCKED" /\ ~login[p].match
    /\ RowOf(login[p].uid).login_attempts = maxAttempts
    /\ RowOf(login[p].uid).is_locked
    /\ RowOf(login[p].uid).locked_until = now + LockMinutes
    /\ RowOf(login[p].uid).last_failed_login = now

\* C17: a lock request whose reason is missing or has fewer than 10
\* characters is answered 400 and changes no security row, for a permanent
\* as for a temporary lock.
C17_ShortReasonRejected ==
  [][\A g \in GateProcs, id \in Accounts, permanent \in BOOLEAN,
        d \in Durations, r \in LockReasons :
       (Len(r) < MinReasonLen /\ lockUserRequest(g, id, permanent, d, r))
         => /\ gate'[g].pc = "idle"
            /\ gate'[g].status = 400
            /\ sec' = sec
  ]_vars

\* a lock request answered 400 while no row was ever written
C17_Witness ==
  \E g \in GateProcs :
    /\ gate[g].route = "lock" /\ gate[g].code = "handler" /\ gate[g].status = 400
    /\ \A u \in Users : sec[u] = NoRow

\* C18: a request that presents the token issued to a user, before
\* iat + 60 minutes, while the user exists with the role of the token, is
\* not answered 401 and carries the id and the role of the token past
\* verifyToken (an admin route answers 403 to a role that is not admin);
\* with no lock stored it is handed to the handler with the same principal.
C18_TokenRoundTrip ==
  [][\A g \in GateProcs :
       /\ (gate[g].pc = "idle" /\ gate'[g] # gate[g])
            => LET token == cookie[gate'[g].uid]
               IN  (/\ now < token.iat + TokenLifetime
                    /\ users[token.id] # NoUser
                    /\ users[token.id].role = token.role)
                     => /\ gate'[g].status # 401
                        /\ gate'[g].uid = token.id
                        /\ IF gate'[g].route \in AdminRoutes /\ token.role # "admin"
                             THEN gate'[g].status = 403
                             ELSE /\ gate'[g].pc \in {"lock", "handler"}
                                  /\ gate'[g].role = token.role
       /\ (gate[g].pc = "lock" /\ gate'[g] # gate[g]
             /\ ~RowOf(gate[g].uid).is_permanently_locked
             /\ ~RowOf(gate[g].uid).is_locked
             /\ RowOf(gate[g].uid).locked_until = NULL)
            => /\ gate'[g].pc = "handler"
               /\ gate'[g].uid = gate[g].uid
               /\ gate'[g].role = gate[g].role
  ]_vars

\* a token in the last tick before its expiry has reached the handler
C18_Witness ==
  \E g \in GateProcs :
    /\ gate[g].pc = "handler"
    /\ cookie[gate[g].uid].iat + TokenTick = now
    /\ now + TokenTick >= cookie[gate[g].uid].iat + TokenLifetime
    /\ gate[g].role = cookie[gate[g].uid].role
    /\ users[gate[g].uid] # NoUser

\* C19: a request that presents the token of a user whose users row is
\* deleted is answered 401 by verifyToken, whatever the age of the token,
\* and goes no further.
C19_DeletedUserRejected ==
  [][\A g \in GateProcs :
       (gate[g].pc = "idle" /\ gate'[g] # gate[g] /\ users[gate'[g].uid] = NoUser)
         => /\ gate'[g].pc = "idle"
            /\ gate'[g].status = 401
  ]_vars

\* the unexpired token of a deleted user was answered 401
C19_Witness ==
  \E g \in GateProcs :
    /\ gate[g].pc = "idle" /\ gate[g].status = 401
    /\ users[gate[g].uid] = NoUser
    /\ now < cookie[gate[g].uid].iat + TokenLifetime

\* C20: a step that deletes a users row is the DELETE of a request whose
\* target is not the requester and is not the only user with role admin.
C20_DeleteKeepsSelfAndLastAdmin ==
  [][\A u \in Users :
       (users[u] # NoUser /\ users'[u] = NoUser)
         => \E g \in GateProcs :
              /\ gate[g].pc = "delete" /\ gate[g].target = u
              /\ gate[g].uid # u
              /\ ~(users[u].role = "admin" /\ AdminCount(users) = 1)
  ]_vars

\* C21: of two logins answered after a wrong password, one for a
\* registered email and one for an email with no account, the responses
\* (status, error message, fields of the body) are the same.
C21_NonEnumeration ==
  \A p, q \in LoginProcs :
    (/\ login[p].pc = "idle" /\ login[q].pc = "idle"
     /\ login[p].code \notin {"none", MissingInput}
     /\ login[q].code \notin {"none", MissingInput}
     /\ ~login[p].match /\ ~login[q].match
     /\ users[login[p].uid] # NoUser
     /\ users[login[q].uid] = NoUser)
      => userLoginResponse(login[p].code) = userLoginResponse(login[q].code)

\* C22: a step that raises login_attempts is the failure upsert of a login
\* whose comparison failed; a login goes past its SELECT only if the row it
\* read was neither permanently locked nor temporarily locked with
\* now < locked_until; a login that reads such a lock ends at once and
\* writes nothing.
C22_IncrementOnlyOnUnlockedFailure ==
  [][/\ \A u \in Users :
          Existing(sec'[u]).login_attempts > RowOf(u).login_attempts
            => \E p \in LoginProcs :
                 /\ login[p].pc = "failw" /\ login'[p].pc = "idle"
                 /\ login[p].uid = u /\ ~login[p].match
                 /\ sec'[u].login_attempts = login[p].attempts
     /\ \A p \in LoginProcs :
          Selects(p)
            => LET row == RowOf(login'[p].uid)
                   locked == \/ row.is_permanently_locked
                             \/ row.locked_until # NULL /\ now < row.locked_until
               IN  /\ login'[p].pc # "idle" => ~locked
                   /\ locked => /\ login'[p].pc = "idle"
                                /\ sec' = sec
                                /\ checks' = checks
  ]_vars

\* a wrong password against an account an admin has locked: rejected, the
\* counter as it was
C22_Witness ==
  \E p \in LoginProcs :
    /\ login[p].pc = "idle" /\ login[p].code = "ACCOUNT_LOCKED" /\ ~login[p].match
    /\ login[p].lock_reason = ReasonFraude
    /\ RowOf(login[p].uid).login_attempts \in 1..(maxAttempts - 1)
    /\ RowOf(login[p].uid).is_locked
    /\ now < RowOf(login[p].uid).locked_until

\* C23: the handler of a request whose principal has the stored role
\* viewer changes no table: user_security, users and compras are as before.
C23_ViewerReadOnly ==
  [][\A g \in GateProcs :
       (gate[g].pc = "handler" /\ gate[g].role = "viewer" /\ gate'[g] # gate[g])
         => /\ sec' = sec
            /\ users' = users
            /\ orders' = orders
  ]_vars

\* C24: lockUser with permanent = true and a reason of at least 10
\* characters leaves is_permanently_locked = true and lock_reason = the
\* given reason, whatever the row was.
C24_PermanentLockFromAnyState ==
  [][\A u \in Accounts, d \in Durations, r \in ReasonInputs :
       (Len(trim(r)) >= MinReasonLen /\ lockUser(u, TRUE, d, r))
         => /\ sec'[u].is_permanently_locked
            /\ sec'[u].lock_reason = r
  ]_vars

\* a permanent lock put on an account that five failures had locked
C24_Witness ==
  \E u \in Accounts :
    /\ RowOf(u).is_permanently_locked
    /\ RowOf(u).lock_reason = ReasonFraude
    /\ RowOf(u).login_attempts = maxAttempts
    /\ ~RowOf(u).is_locked
    /\ RowOf(u).locked_until = NULL

\* C25: lockUser with permanent = false, a duration and a valid reason
\* leaves the account temporarily locked until now + duration with the
\* given reason and not permanently locked, whatever the row was.
C25_TemporaryLockFromAnyState ==
  [][\A u \in Accounts, d \in Durations, r \in ReasonInputs :
       (Len(trim(r)) >= MinReasonLen /\ lockUser(u, FALSE, d, r))
         => /\ sec'[u].is_locked
            /\ sec'[u].locked_until = now + d
            /\ sec'[u].lock_reason = r
            /\ ~sec'[u].is_permanently_locked
  ]_vars

\* C26: on a row as unlockUser leaves it (open, login_attempts = 0) a login
\* with the correct password goes on to the comparison and is answered OK,
\* and the write of one failed login does not lock the account.
C26_UnlockReopens ==
  [][\A p \in LoginProcs :
       /\ (Selects(p) /\ login'[p].match
             /\ sec[login'[p].uid] # NoRow
             /\ sec[login'[p].uid] = UnlockedRow(sec[login'[p].uid]))
            => /\ login'[p].pc = "compare"
               /\ login'[p].attempts = 0
       /\ (login[p].pc = "okw" /\ login'[p].pc = "idle")
            => /\ login'[p].code = "OK"
               /\ cookie'[login[p].uid] # NoToken
       /\ (login[p].pc = "failw" /\ login'[p].pc = "idle"
             /\ sec[login[p].uid] # NoRow
             /\ sec[login[p].uid] = UnlockedRow(sec[login[p].uid]))
            => ~sec'[login[p].uid].is_locked
  ]_vars

\* C27: the success upsert of a login stores login_attempts = 0,
\* is_locked = false, locked_until = NULL, lock_reason = NULL and
\* last_login = now, leaves is_permanently_locked as it was, and the call
\* resolves with the id and role of the user and no password; the failed
\* checks counted before it are forgotten.
C27_SuccessResets ==
  [][\A p \in LoginProcs :
       (login[p].pc = "okw" /\ login'[p].pc = "idle")
         => LET u == login[p].uid
            IN  /\ login'[p].code = "OK"
                /\ sec'[u].login_attempts = 0
                /\ sec'[u].is_locked = FALSE
                /\ sec'[u].locked_until = NULL
                /\ sec'[u].lock_reason = NoReason
                /\ sec'[u].last_login = now
                /\ sec'[u].is_permanently_locked = RowOf(u).is_permanently_locked
                /\ checks'[u] = 0
                /\ DOMAIN PublicUser(p) = {"id", "role"}
                /\ PublicUser(p) = [id |-> u, role |-> users[u].role]
                /\ cookie'[u] = generateToken(u, users[u].role, now)
  ]_vars

\* a settled success: the counter at 0, last_login and the token stamped now
C27_Witness ==
  \E p \in LoginProcs :
    /\ login[p].pc = "idle" /\ login[p].code = "OK" /\ login[p].match
    /\ sec[login[p].uid] # NoRow
    /\ sec[login[p].uid].login_attempts = 0
    /\ sec[login[p].uid].last_login = now
    /\ sec[login[p].uid].last_failed_login = NULL
    /\ cookie[login[p].uid] # NoToken
    /\ cookie[login[p].uid].iat = now

\* C28: a login request whose email is empty or malformed, or whose
\* password is empty, is answered 400 in the step that receives it: no
\* query is started and users, user_security and the cookies stay as they
\* were.
C28_BadInputRejected ==
  [][\A p \in LoginProcs, email \in EmailInputs, password \in PasswordInputs :
       ( /\ email \in {NoEmail, EmailMalformed} \/ password = ""
         /\ userLogin(p, email, password) )
         => /\ login'[p].pc = "idle"
            /\ login'[p].code = MissingInput
            /\ userLoginResponse(login'[p].code).status = 400
            /\ UNCHANGED <<users, sec, cookie, checks>>
  ]_vars

\* a request answered 400 for its input
C28_Witness ==
  \E p \in LoginProcs :
    /\ login[p].pc = "idle"
    /\ login[p].code = MissingInput
    /\ userLoginResponse(login[p].code).status = 400

\* C29: a login with a non-empty wrong password, of any length from 1,
\* against an existing account that is not locked goes on to the password
\* verification (and from there to the write that adds 1 to
\* login_attempts).
C29_ShortPasswordCounts ==
  [][\A p \in LoginProcs, email \in EmailInputs, password \in PasswordInputs :
       ( /\ validateEmailServer(email) = EmailAna
         /\ Len(password) >= 1
         /\ password # users[UserByEmail(EmailAna)].password
         /\ ~LoginPermanent(sec[UserByEmail(EmailAna)])
         /\ ~LoginLocked(RowOf(UserByEmail(EmailAna)), now)
         /\ userLogin(p, email, password) )
         => login'[p].pc \in {"insert", "compare"}
  ]_vars

\* C30: a login whose SELECT or whose write fails is answered 500.
C30_FailureIs500 ==
  [][\A p \in LoginProcs :
       (loginWriteFails(p) \/ \E u \in Users : loginSelectFails(p, u))
         => userLoginStatus(login'[p].code) = 500
  ]_vars

\* the access_token cookie as a client can send it: absent, cut short,
\* made up, and the issued tokens as they are and with characters added
HeaderJunk == <<"<", ">", "$", " ", ";", "<", ">", "$", " ", ";", "<", ">">>
HeaderForged == <<"e", "y", "J", "h", "b", "G", ".", "2", "a", "0", "0", ".", "x", "x", "x", "x">>

HeaderInputs ==
  {NoHeader, HeaderJunk, HeaderForged}
    \cup UNION {{sign(cookie[u]),
                 sign(cookie[u]) \o <<"<">>,
                 <<" ">> \o sign(cookie[u]) \o <<";", "$">>,
                 SubSeq(sign(cookie[u]), 1, MinTokenLen)} :
                  u \in {v \in Users : cookie[v] # NoToken}}

NextToken ==
  \/ Tick
  \/ \E u \in Users : authUserWithGoogle(u)
  \/ \E g \in SeqGates :
       \/ \E header \in HeaderInputs : verifyTokenHeader(g, header, "profile")
       \/ checkAccountLock(g)
       \/ getProfile(g)

SpecToken == Init /\ [][NextToken]_vars

\* C31: a request whose token is absent, shorter than the minimum length
\* or has a character outside letters, digits, '.', '-' and '_' is answered
\* 401 "No autorizado" by verifyToken, before the signature is verified.
C31_MalformedTokenRejected ==
  [][\A g \in SeqGates, header \in HeaderInputs :
       ( /\ \/ header = NoHeader
            \/ Len(header) <= MinTokenLen
            \/ \E i \in 1..Len(header) : header[i] \notin LegalTokenChars
         /\ verifyTokenHeader(g, header, "profile") )
         => /\ gate'[g].pc = "idle"
            /\ gate'[g].status = 401
            /\ gate'[g].code = "No autorizado"
  ]_vars

\* first logins of one account by two clients while an administrator
\* locks, unlocks and resets it; the clock stands still
NextRows ==
  \/ \E p \in LoginProcs :
       \/ \E u \in Accounts, pw \in Passwords : loginSelect(p, u, pw)
       \/ loginInsert(p)
       \/ loginCompare(p)
       \/ loginFailWrite(p)
       \/ loginOkWrite(p)
  \/ \E u \in Accounts :
       \/ \E permanent \in BOOLEAN, d \in Durations :
            lockUser(u, permanent, d, ReasonFraude)
       \/ unlockUser(u)
       \/ resetAttempts(u)

SpecRows == Init /\ [][NextRows]_vars

\* C32: user_security never holds more than one row for a user id, however
\* first logins, lockUser, unlockUser and resetAttempts interleave; the
\* INSERT of a first login that finds no row creates it open with
\* login_attempts = 0, and one that finds a row leaves it as it is.
C32_OneRowPerUser ==
  [][/\ \A u \in Users : sec'[u] # NoRow => sec'[u].copies = 1
     /\ \A p \in LoginProcs :
          (login[p].pc = "insert" /\ login'[p].pc = "compare")
            => LET u == login[p].uid
               IN  IF sec[u] = NoRow
                     THEN /\ sec'[u].login_attempts = 0
                          /\ ~sec'[u].is_locked
                          /\ sec'[u].locked_until = NULL
                          /\ ~sec'[u].is_permanently_locked
                     ELSE sec'[u] = sec[u]
  ]_vars

\* two first logins of one account: the row of the first is stored, the
\* second has read no row and is about to insert
C32_Witness ==
  \E p, q \in LoginProcs :
    /\ p # q
    /\ login[p].pc = "insert" /\ login[q].pc = "compare"
    /\ login[p].uid = login[q].uid
    /\ sec[login[p].uid] = InitialRow
    /\ sec[login[p].uid].copies = 1

\* an admin and a user on the security routes of the admin panel and on
\* GET /profile; the admin can be the target of the locks
SecurityRoutes == {"lock", "unlock", "reset"}

NextSecurity ==
  \/ Tick
  \/ \E u \in Users : authUserWithGoogle(u)
  \/ \E g \in SeqGates :
       \/ \E u \in Users, route \in SecurityRoutes \cup {"profile"} :
            verifyToken(g, u, route)
       \/ checkAccountLock(g)
       \/ getProfile(g)
       \/ \E id \in Users, permanent \in BOOLEAN, d \in Durations :
            lockUserRequest(g, id, permanent, d, ReasonFraude)
       \/ \E id \in Users : unlockUserRequest(g, id)
       \/ \E id \in Users : resetAttemptsRequest(g, id)

SpecSecurity == Init /\ [][NextSecurity]_vars

\* C33: a request to lockUser, unlockUser or resetAttempts made with the
\* valid token of an admin whose own account is locked, permanently or
\* temporarily, when the gate receives it does not reach the handler.
C33_LockedAdminBlocked ==
  [][\A g \in SeqGates, u \in Users, route \in SecurityRoutes :
       ( /\ cookie[u] # NoToken
         /\ LockVerdict(sec[u], now) \in {"ACCOUNT_LOCKED", "ACCOUNT_PERMANENTLY_LOCKED"}
         /\ verifyToken(g, u, route) )
         => gate'[g].pc # "handler"
  ]_vars

\* two clients signing in to one account while the clock runs and an
\* administrator locks it (for as long as the automatic lock lasts),
\* unlocks it and resets its counter
NextEvery ==
  \/ Tick
  \/ \E p \in LoginProcs : loginUser(p)
  \/ \E u \in Accounts :
       \/ \E permanent \in BOOLEAN :
            lockUser(u, permanent, LockMinutes, ReasonFraude)
       \/ unlockUser(u)
       \/ resetAttempts(u)

SpecEvery == Init /\ [][NextEvery]_vars

\* C34: login_attempts of every stored row is between 0 and maxAttempts
\* (5), however the logins, the admin operations and the lazy clear
\* interleave.
C34_AttemptsInRange ==
  \A u \in Users :
    sec[u] # NoRow
      => sec[u].login_attempts >= 0 /\ sec[u].login_attempts <= maxAttempts

\* the counter at its maximum after more failed verifications than that:
\* two requests have counted from the same value
C34_Witness ==
  \E u \in Users :
    /\ sec[u] # NoRow
    /\ sec[u].login_attempts = maxAttempts
    /\ sec[u].is_locked
    /\ checks[u] > maxAttempts

\* C35: in every stored row is_locked is true exactly when locked_until is
\* not NULL, after any sequence of logins, gate checks, lockUser,
\* unlockUser, resetAttempts and the cleanup of getUsersSecurity.
C35_FlagAgreesWithDeadline ==
  \A u \in Users :
    sec[u] # NoRow => (sec[u].is_locked <=> sec[u].locked_until # NULL)

\* a temporary lock by an administrator on an account with failed attempts
C35_Witness ==
  \E u \in Users :
    /\ sec[u] # NoRow
    /\ sec[u].is_locked /\ sec[u].locked_until # NULL
    /\ sec[u].lock_reason = ReasonFraude
    /\ sec[u].login_attempts > 0

\* C36: from a state with an admin, some user with role admin exists in
\* every reachable state, whatever the interleaving of the deleteUser and
\* changeRolUser requests of different admins.
C36_AdminRemains ==
  \E u \in Users : users[u] # NoUser /\ users[u].role = "admin"

\* C37: while an account stays permanently locked, no step other than a
\* lockUser of an administrator changes its stored lock_reason; a login
\* that was in flight when the lock was written does not.
C37_PermanentReasonKept ==
  [][\A u \in Accounts :
       ( /\ sec[u] # NoRow /\ sec[u].is_permanently_locked
         /\ sec'[u] # NoRow /\ sec'[u].is_permanently_locked
         /\ ~\E permanent \in BOOLEAN, d \in Durations, r \in ReasonInputs :
               lockUser(u, permanent, d, r) )
         => sec'[u].lock_reason = sec[u].lock_reason
  ]_vars

\* C38: the lazy clear of an expired temporary lock, in loginUser and in
\* checkAccountLock, sets login_attempts = 0, is_locked = false,
\* locked_until = NULL and lock_reason = NULL and leaves last_login,
\* last_failed_login and is_permanently_locked as they were.
C38_LazyClearFrame ==
  [][/\ \A p \in LoginProcs :
          (login[p].pc = "clear" /\ login'[p].pc = "compare")
            => LET u == login[p].uid
               IN  /\ sec'[u].login_attempts = 0
                   /\ ~sec'[u].is_locked
                   /\ sec'[u].locked_until = NULL
                   /\ sec'[u].lock_reason = NoReason
                   /\ sec'[u].last_login = RowOf(u).last_login
                   /\ sec'[u].last_failed_login = RowOf(u).last_failed_login
                   /\ sec'[u].is_permanently_locked = RowOf(u).is_permanently_locked
     /\ \A g \in GateProcs :
          (gate[g].pc = "clear" /\ gate'[g].pc = "handler" /\ sec[gate[g].uid] # NoRow)
            => LET u == gate[g].uid
               IN  /\ sec'[u].login_attempts = 0
                   /\ ~sec'[u].is_locked
                   /\ sec'[u].locked_until = NULL
                   /\ sec'[u].lock_reason = NoReason
                   /\ sec'[u].last_login = sec[u].last_login
                   /\ sec'[u].last_failed_login = sec[u].last_failed_login
                   /\ sec'[u].is_permanently_locked = sec[u].is_permanently_locked
  ]_vars
====
